---- MODULE Spec2Model ----
(***************************************************************************)
(* The PNG scanline cache of frmts/raw/envidataset.cpp (PNGDataset and     *)
(* PNGRasterBand): a forward-only libpng read stream presented as a        *)
(* random-access, per-band block API.                                      *)
(*                                                                         *)
(* The state is one open PNGDataset: its image parameters, its scanline    *)
(* buffer and decode cursor, and the libpng read stream it owns.  The      *)
(* operations are the public entry points PNGRasterBand::IReadBlock,       *)
(* PNGRasterBand::IWriteBlock and PNGDataset::FlushCache; LoadScanline and *)
(* Restart are private and run only inside the block operations.           *)
(*                                                                         *)
(* Two more parts of the repository have a specification of their own      *)
(* further down: OGRMySQLResultLayer::ReadResultDefinition of               *)
(* ogr/ogrsf_frmts/mysql/ogrmysqlresultlayer.cpp (MySQLSpec) and the        *)
(* ENVIDataset of frmts/raw/envidataset.cpp (ENVISpec).  Each               *)
(* specification holds the variables of the others at rest.                *)
(***************************************************************************)
EXTENDS Integers, Sequences, FiniteSets, TLC

\* ------------------------------------------------------------------ bounds
\* Largest image width, in pixels.
MaxXSize == 2
\* Largest image height, in scanlines.
MaxYSize == 4
\* Largest number of samples (width * height * bands) of an image.
MaxSamples == 8

\* ------------------------------------------------- inputs of the operations
\* Channel counts of a PNG image: grey, grey+alpha, rgb, rgba.
BandCounts == {1, 2, 3, 4}
\* Bit depths of a PNG image, one on each side of every test of nBitDepth,
\* which are all "nBitDepth == 16" (1, 2 and 4 bit data is promoted to 8).
BitDepths == {8, 16}
\* What the caller's block buffer holds, in every byte, before IReadBlock
\* fills it: a value no byte of the image or of a written block has.
FillBytes == {255}
\* What freshly allocated memory holds: indeterminate bytes, which no
\* operation reads before it has overwritten them.
Indeterminate == {-1}

\* A null pointer: every allocation of the driver has at least one byte.
NULL == <<>>

VARIABLES
    nRasterXSize,      \* image width (GDALDataset)
    nRasterYSize,      \* image height
    nBands,            \* channel count
    nBitDepth,         \* PNGDataset::nBitDepth
    bInterlaced,       \* PNGDataset::bInterlaced
    pabyBuffer,        \* PNGDataset::pabyBuffer: NULL or the bytes it holds
    nBufferStartLine,  \* PNGDataset::nBufferStartLine
    nBufferLines,      \* PNGDataset::nBufferLines
    nLastLineRead,     \* PNGDataset::nLastLineRead
    hPNG,              \* the libpng read stream: rows produced since png_read_info
    produced,          \* history: the rows libpng produced since open or the last Restart
    highReq,           \* history: highest row requested since open or the last Restart
    written,           \* history: block last written to each (row, band) of the buffer
    call,              \* the last operation called and its arguments
    eErr,              \* what the last operation returned
    ev,                \* the library calls the last operation made, in order
    pImage,            \* the caller's block buffer after the last operation
    crashed,           \* the process was terminated
    evictedRow,        \* history: row whose written blocks the last operation discarded
    hResultSet,        \* MySQL: the fields of the result set (MYSQL_FIELD)
    iRawField,         \* MySQL: loop index of ReadResultDefinition
    poDefn,            \* MySQL: the fields added to the OGRFeatureDefn
    bHasFid,           \* MySQL: OGRMySQLLayer::bHasFid
    pszFIDColumn,      \* MySQL: OGRMySQLLayer::pszFIDColumn
    pszGeomColumn,     \* MySQL: OGRMySQLLayer::pszGeomColumn
    hdrFile,           \* ENVI: the .hdr file, NULL or its lines
    binFile,           \* ENVI: the binary file exists
    poDS,              \* ENVI: the ENVIDataset object, NoDataset when there is none
    padfTransform,     \* ENVI: the caller's array after GetGeoTransform
    enviRet            \* ENVI: the last ENVI call and what it returned

hdr == <<nRasterXSize, nRasterYSize, nBands, nBitDepth, bInterlaced>>
pngVars == <<nRasterXSize, nRasterYSize, nBands, nBitDepth, bInterlaced,
             pabyBuffer, nBufferStartLine, nBufferLines, nLastLineRead, hPNG,
             produced, highReq, written, call, eErr, ev, pImage, crashed>>
mysqlVars == <<hResultSet, iRawField, poDefn, bHasFid, pszFIDColumn, pszGeomColumn>>
enviVars == <<hdrFile, binFile, poDS, padfTransform, enviRet>>
vars == <<pngVars, evictedRow, mysqlVars, enviVars>>

\* No result layer is being built.
MySQLIdle ==
    /\ hResultSet = <<>>
    /\ iRawField = 0
    /\ poDefn = <<>>
    /\ bHasFid = FALSE
    /\ pszFIDColumn = NULL
    /\ pszGeomColumn = NULL

\* No ENVI dataset exists.
\* An ENVIDataset as its constructor leaves it; open is FALSE while no dataset
\* object exists.
NoDataset ==
    [open |-> FALSE, pszMode |-> "", nBands |-> 0, eType |-> "GDT_Byte",
     bFoundMapinfo |-> FALSE, adfGeoTransform |-> <<0, 1, 0, 0, 0, 1>>,
     desc |-> <<>>]

\* An ENVI call, its arguments and what it returned.
ENVICall(op, ret, eType, xform) ==
    [op |-> op, ret |-> ret, eType |-> eType, xform |-> xform]

ENVIIdle ==
    /\ hdrFile = NULL
    /\ binFile = FALSE
    /\ poDS = NoDataset
    /\ padfTransform = <<>>
    /\ enviRet = ENVICall("none", "none", "none", <<>>)

\* ------------------------------------------------------------ byte arrays
\* C arrays are indexed from 0; a sequence holds byte off at index off + 1.
\* A read outside the array yields -1 and a write outside it is dropped.
Get(buf, off) ==
    IF off >= 0 /\ off < Len(buf) THEN buf[off + 1] ELSE -1

Put(buf, off, v) ==
    IF off >= 0 /\ off < Len(buf) THEN [buf EXCEPT ![off + 1] = v] ELSE buf

Bytes(n, v) == [i \in 1..n |-> v]

Max(a, b) == IF a >= b THEN a ELSE b

\* A fresh allocation of n bytes.
Malloc(n) == Bytes(n, CHOOSE v \in Indeterminate : TRUE)

\* --------------------------------------------------------- image geometry
\* Bytes per sample of a band.
BandPixelSize(depth) ==
    IF depth = 16 THEN 2 ELSE 1

\* Bytes from one pixel to the next in the interleaved buffer, as the band
\* computes it.
BandPixelOffset(bands, depth) ==
    bands * BandPixelSize(depth)

\* The same stride as LoadScanline computes it.
LoadPixelOffset(bands, depth) ==
    IF depth = 16 THEN 2 * bands ELSE 1 * bands

\* Bytes of one decoded scanline.
RowBytes == LoadPixelOffset(nBands, nBitDepth) * nRasterXSize

\* Bytes of one block of a band (nBlockXSize = nRasterXSize, nBlockYSize = 1,
\* eDataType GDT_UInt16 at depth 16 and GDT_Byte otherwise).
BlockBytes == nRasterXSize * (IF nBitDepth = 16 THEN 2 ELSE 1)

\* The image stored in the file: scanline iLine, pixel-interleaved, as libpng
\* decodes it.  Every byte of every scanline is different.
PNGRow(iLine) ==
    [i \in 1..RowBytes |-> 1 + 32 * iLine + (i - 1)]

\* The block a caller writes to band nBand of scanline nBlockYOff: bytes that
\* differ from block to block and from every byte of the image.
CallerData(nBlockYOff, nBand) ==
    [i \in 1..BlockBytes |-> 1000 + 100 * nBlockYOff + 10 * nBand + (i - 1)]

Rows == 0..(nRasterYSize - 1)
Bands == 1..nBands
NoWrites == [s \in Rows \X Bands |-> <<>>]

\* -------------------------------------------------------------- the state
Event(e, n, at) == [e |-> e, n |-> n, at |-> at]

Init ==
    /\ nRasterXSize \in 1..MaxXSize
    /\ nRasterYSize \in 1..MaxYSize
    /\ nBands \in BandCounts
    /\ nRasterXSize * nRasterYSize * nBands <= MaxSamples
    /\ nBitDepth \in BitDepths
    /\ bInterlaced \in BOOLEAN
    /\ pabyBuffer = NULL
    /\ nBufferStartLine = 0
    /\ nBufferLines = 0
    /\ nLastLineRead = -1
    /\ hPNG = 0
    /\ produced = <<>>
    /\ highReq = -1
    /\ written = NoWrites
    /\ call = [op |-> "Open", nBlockYOff |-> -1, nBand |-> 0]
    /\ eErr = "CE_None"
    /\ ev = <<>>
    /\ pImage = <<>>
    /\ crashed = FALSE
    /\ evictedRow = -1
    /\ MySQLIdle
    /\ ENVIIdle

\* The dataset as one record, for the private methods that run inside a
\* block operation.  nPng counts the libpng calls the operation has made and
\* failAt is the call at which libpng raises an error (0: none does).
Dataset(failAt) ==
    [pabyBuffer |-> pabyBuffer, nBufferStartLine |-> nBufferStartLine,
     nBufferLines |-> nBufferLines, nLastLineRead |-> nLastLineRead,
     hPNG |-> hPNG, produced |-> produced, highReq |-> highReq,
     ev |-> <<>>, eErr |-> "CE_None", crashed |-> FALSE,
     nPng |-> 0, failAt |-> failAt]

\* A libpng error raised inside the libpng call fn: no setjmp() is installed,
\* so the application terminates.  The event records the call that failed and
\* the number of rows the stream had produced when it was made.
PngError(d, fn) ==
    [d EXCEPT !.crashed = TRUE,
              !.ev = Append(@, Event(fn, d.hPNG, d.nLastLineRead))]

PngFails(d) == d.nPng + 1 = d.failAt

\* ----------------------------------------------------- PNGDataset::Restart
\* Faulty variant of Restart: the stream is rewound but the cursor is not reset.
RestartKeepsCursor(d) ==
    IF d.crashed THEN d
    ELSE IF PngFails(d) THEN PngError(d, "png_read_info_error")
    ELSE [d EXCEPT !.hPNG = 0,
                   !.produced = <<>>,
                   !.highReq = -1,
                   !.nPng = @ + 1,
                   !.ev = Append(@, Event("Restart", -1, d.nLastLineRead))]

Restart(d) ==
    IF d.crashed THEN d
    ELSE IF PngFails(d) THEN PngError(d, "png_read_info_error")
    ELSE [d EXCEPT !.hPNG = 0,
                   !.produced = <<>>,
                   !.highReq = -1,
                   !.nPng = @ + 1,
                   !.nLastLineRead = -1,
                   !.ev = Append(@, Event("Restart", -1, d.nLastLineRead))]

\* ------------------------------------------------------------- libpng reads
\* memcpy of row into buf at byte offset off.
BlitRow(buf, off, row) ==
    [k \in 1..Len(buf) |->
        IF k - 1 >= off /\ k - 1 < off + Len(row) THEN row[k - off] ELSE buf[k]]

\* png_read_rows( hPNG, &row, NULL, 1 ) with row = pabyBuffer: the stream
\* yields its next scanline; past the last scanline it raises an error.
png_read_rows(d) ==
    IF d.crashed THEN d
    ELSE IF PngFails(d) \/ d.hPNG >= nRasterYSize \/ d.pabyBuffer = NULL
    THEN PngError(d, "png_read_rows_error")
    ELSE [d EXCEPT !.pabyBuffer = BlitRow(@, 0, PNGRow(d.hPNG)),
                   !.hPNG = @ + 1,
                   !.produced = Append(@, d.hPNG),
                   !.nPng = @ + 1,
                   !.ev = Append(@, Event("png_read_rows", d.hPNG, d.nLastLineRead))]

\* Faulty variant of RowPtr: the row pointers run from the bottom row up.
RowPtrBottomUp(i) ==
    (nRasterYSize - 1 - i) * LoadPixelOffset(nBands, nBitDepth) * nRasterXSize

\* png_rows[i] = pabyBuffer + i * nPixelOffset * GetRasterXSize()
RowPtr(i) ==
    i * LoadPixelOffset(nBands, nBitDepth) * nRasterXSize

RECURSIVE ReadImageRows(_, _)
ReadImageRows(buf, i) ==
    IF i >= nRasterYSize THEN buf
    ELSE ReadImageRows(BlitRow(buf, RowPtr(i), PNGRow(i)), i + 1)

\* png_read_image( hPNG, png_rows ): every pass of the whole image, which
\* libpng can only do on a stream that has produced no row yet.
png_read_image(d) ==
    IF d.crashed THEN d
    ELSE IF PngFails(d) \/ d.hPNG # 0
    THEN PngError(d, "png_read_image_error")
    ELSE [d EXCEPT !.pabyBuffer = ReadImageRows(@, 0),
                   !.hPNG = nRasterYSize,
                   !.produced = [i \in 1..nRasterYSize |-> i - 1],
                   !.nPng = @ + 1,
                   !.ev = Append(@, Event("png_read_image", nRasterYSize, d.nLastLineRead))]

\* ------------------------------------------------ PNGDataset::LoadScanline
\* Faulty variant of Servable: the first buffered line is taken not to be buffered.
ServableAfterStart(nLine, start, lines) ==
    nLine > start /\ nLine < start + lines

\* Faulty variant of Servable: only the first buffered line is taken to be buffered.
ServableFirstLine(nLine, start, lines) ==
    nLine = start /\ lines > 0

\* Faulty variant of Servable: the end of the buffered range is not tested.
ServableFromStart(nLine, start, lines) ==
    nLine >= start

\* The scanline is in the buffer already.
Servable(nLine, start, lines) ==
    nLine >= start /\ nLine < start + lines

\* Faulty variant of InterlacedNeedsRestart: the stream is never rewound.
InterlacedNeverRestarts(last) ==
    last < -1

\* Interlaced: a whole-image decode already happened on this stream.
InterlacedNeedsRestart(last) ==
    last # -1

\* Faulty variant of NeedsRestart: the row at the cursor is taken to be ahead of it.
NeedsRestartStrict(nLine, last) ==
    nLine < last

\* Progressive: the requested scanline is behind the decode cursor.
NeedsRestart(nLine, last) ==
    nLine <= last

\* Faulty variant of MoreRows: the loop reads one row past the requested one.
MoreRowsInclusive(nLine, last) ==
    nLine >= last

\* The loop condition of "read till we get the desired row".
MoreRows(nLine, last) ==
    nLine > last

\* Faulty variant of ReadRows: an "if" for the "while", one row read at most.
ReadRowsOnce(d, nLine) ==
    IF d.crashed \/ ~MoreRows(nLine, d.nLastLineRead) THEN d
    ELSE LET d1 == png_read_rows(d)
         IN  IF d1.crashed THEN d1 ELSE [d1 EXCEPT !.nLastLineRead = @ + 1]

\* Faulty variant of ReadRows: the cursor advances by two for each row read.
RECURSIVE ReadRowsCountsTwice(_, _)
ReadRowsCountsTwice(d, nLine) ==
    IF d.crashed \/ ~MoreRows(nLine, d.nLastLineRead) THEN d
    ELSE LET d1 == png_read_rows(d)
         IN  IF d1.crashed THEN d1
             ELSE ReadRowsCountsTwice([d1 EXCEPT !.nLastLineRead = @ + 2], nLine)

RECURSIVE ReadRows(_, _)
ReadRows(d, nLine) ==
    IF d.crashed \/ ~MoreRows(nLine, d.nLastLineRead) THEN d
    ELSE LET d1 == png_read_rows(d)
         IN  IF d1.crashed THEN d1
             ELSE ReadRows([d1 EXCEPT !.nLastLineRead = @ + 1], nLine)

\* The interlaced branch.  CPLAssert( pabyBuffer == NULL ) is compiled out of
\* release builds: a failed assertion is logged and the old buffer leaks.
LoadInterlaced(d, mallocOk) ==
    LET size == LoadPixelOffset(nBands, nBitDepth) * nRasterXSize * nRasterYSize
        d0 == IF d.pabyBuffer = NULL THEN d
              ELSE [d EXCEPT !.ev = Append(@, Event("CPLAssert", 0, d.nLastLineRead))]
        d1 == IF InterlacedNeedsRestart(d0.nLastLineRead) THEN Restart(d0) ELSE d0
        d2 == [d1 EXCEPT !.nBufferStartLine = 0,
                         !.nBufferLines = nRasterYSize,
                         !.pabyBuffer = IF mallocOk THEN Malloc(size) ELSE NULL,
                         !.ev = Append(@, Event("VSIMalloc", size, d1.nLastLineRead))]
        d3 == png_read_image(d2)
    IN  IF d1.crashed THEN d1
        ELSE IF d2.pabyBuffer = NULL THEN [d2 EXCEPT !.eErr = "CE_Failure"]
        ELSE IF d3.crashed THEN d3
        ELSE [d3 EXCEPT !.nLastLineRead = nRasterYSize - 1, !.eErr = "CE_None"]

\* Faulty variant of LoadProgressive: the buffer is recorded as holding the
\* row after the one requested.
LoadProgressiveStartsAfter(d, nLine, mallocOk) ==
    LET size == LoadPixelOffset(nBands, nBitDepth) * nRasterXSize
        d1 == IF d.pabyBuffer # NULL THEN d
              ELSE IF mallocOk
              THEN [d EXCEPT !.pabyBuffer = Malloc(size),
                             !.ev = Append(@, Event("CPLMalloc", size, d.nLastLineRead))]
              ELSE [d EXCEPT !.crashed = TRUE,
                             !.ev = Append(@, Event("CPLMalloc_fatal", size, d.nLastLineRead))]
        d2 == IF NeedsRestart(nLine, d1.nLastLineRead) THEN Restart(d1) ELSE d1
        d3 == ReadRows(d2, nLine)
    IN  IF d3.crashed THEN d3
        ELSE [d3 EXCEPT !.nBufferStartLine = nLine + 1,
                        !.nBufferLines = 1,
                        !.eErr = "CE_None"]

\* Faulty variant of LoadProgressive: a buffer is allocated on every call,
\* whether one exists or not.
LoadProgressiveAlwaysAllocates(d, nLine, mallocOk) ==
    LET size == LoadPixelOffset(nBands, nBitDepth) * nRasterXSize
        d1 == IF mallocOk
              THEN [d EXCEPT !.pabyBuffer = Malloc(size),
                             !.ev = Append(@, Event("CPLMalloc", size, d.nLastLineRead))]
              ELSE [d EXCEPT !.crashed = TRUE,
                             !.ev = Append(@, Event("CPLMalloc_fatal", size, d.nLastLineRead))]
        d2 == IF NeedsRestart(nLine, d1.nLastLineRead) THEN Restart(d1) ELSE d1
        d3 == ReadRows(d2, nLine)
    IN  IF d3.crashed THEN d3
        ELSE [d3 EXCEPT !.nBufferStartLine = nLine,
                        !.nBufferLines = 1,
                        !.eErr = "CE_None"]

\* The progressive branch.  CPLMalloc does not return when it cannot
\* allocate: it reports a fatal error and the application terminates.
LoadProgressive(d, nLine, mallocOk) ==
    LET size == LoadPixelOffset(nBands, nBitDepth) * nRasterXSize
        d1 == IF d.pabyBuffer # NULL THEN d
              ELSE IF mallocOk
              THEN [d EXCEPT !.pabyBuffer = Malloc(size),
                             !.ev = Append(@, Event("CPLMalloc", size, d.nLastLineRead))]
              ELSE [d EXCEPT !.crashed = TRUE,
                             !.ev = Append(@, Event("CPLMalloc_fatal", size, d.nLastLineRead))]
        d2 == IF NeedsRestart(nLine, d1.nLastLineRead) THEN Restart(d1) ELSE d1
        d3 == ReadRows(d2, nLine)
    IN  IF d3.crashed THEN d3
        ELSE [d3 EXCEPT !.nBufferStartLine = nLine,
                        !.nBufferLines = 1,
                        !.eErr = "CE_None"]

LoadScanline(d, nLine, mallocOk) ==
    LET r == IF Servable(nLine, d.nBufferStartLine, d.nBufferLines)
             THEN [d EXCEPT !.eErr = "CE_None"]
             ELSE IF bInterlaced THEN LoadInterlaced(d, mallocOk)
             ELSE LoadProgressive(d, nLine, mallocOk)
    IN  [r EXCEPT !.highReq = Max(@, nLine)]

\* -------------------------------------------- PNGRasterBand block transfer
\* Faulty variant of ScanlineOffset: every band starts where the first does.
ScanlineOffsetFirstBand(nBlockYOff, start, nPixelOffset, nXSize, nPixelSize, nBand) ==
    (nBlockYOff - start) * nPixelOffset * nXSize

\* Faulty variant of ScanlineOffset: the band number is taken to count from 0.
ScanlineOffsetBandFromZero(nBlockYOff, start, nPixelOffset, nXSize, nPixelSize, nBand) ==
    (nBlockYOff - start) * nPixelOffset * nXSize + nPixelSize * nBand

\* pabyScanline - pabyBuffer: where the band's samples of the scanline start.
ScanlineOffset(nBlockYOff, start, nPixelOffset, nXSize, nPixelSize, nBand) ==
    (nBlockYOff - start) * nPixelOffset * nXSize + nPixelSize * (nBand - 1)

\* memcpy( dst + dstOff, src + srcOff, n )
Memcpy(dst, dstOff, src, srcOff, n) ==
    [k \in 1..Len(dst) |->
        IF k - 1 >= dstOff /\ k - 1 < dstOff + n
        THEN Get(src, srcOff + (k - 1 - dstOff))
        ELSE dst[k]]

\* IReadBlock, nPixelSize == 1: for( i = 0; i < nXSize; i++ )
\*     pImage[i] = pabyScanline[i*nPixelOffset];
RECURSIVE ReadLoop1(_, _, _, _, _, _)
ReadLoop1(img, buf, base, nPixelOffset, i, nXSize) ==
    IF i >= nXSize THEN img
    ELSE ReadLoop1(Put(img, i, Get(buf, base + i * nPixelOffset)),
                   buf, base, nPixelOffset, i + 1, nXSize)

\* IReadBlock, nPixelSize == 2: for( i = 0; i < nXSize; i++ ) {
\*     pImage[i] = pabyScanline[i*nPixelOffset];
\*     pImage[i+1] = pabyScanline[i*nPixelOffset+1]; }
RECURSIVE ReadLoop2(_, _, _, _, _, _)
ReadLoop2(img, buf, base, nPixelOffset, i, nXSize) ==
    IF i >= nXSize THEN img
    ELSE ReadLoop2(Put(Put(img, i, Get(buf, base + i * nPixelOffset)),
                       i + 1, Get(buf, base + i * nPixelOffset + 1)),
                   buf, base, nPixelOffset, i + 1, nXSize)

\* The transfer of IReadBlock from the working buffer to the caller's block.
ReadTransfer(img, buf, base, nPixelSize, nPixelOffset, nXSize) ==
    IF nPixelSize = nPixelOffset
    THEN Memcpy(img, 0, buf, base, nPixelSize * nXSize)
    ELSE IF nPixelSize = 1
    THEN ReadLoop1(img, buf, base, nPixelOffset, 0, nXSize)
    ELSE ReadLoop2(img, buf, base, nPixelOffset, 0, nXSize)

\* IWriteBlock, nPixelSize == 1: for( i = 0; i < nXSize; i++ )
\*     pabyScanline[i*nPixelOffset] = pImage[i];
RECURSIVE WriteLoop1(_, _, _, _, _, _)
WriteLoop1(buf, img, base, nPixelOffset, i, nXSize) ==
    IF i >= nXSize THEN buf
    ELSE WriteLoop1(Put(buf, base + i * nPixelOffset, Get(img, i)),
                    img, base, nPixelOffset, i + 1, nXSize)

\* IWriteBlock, nPixelSize == 2: for( i = 0; i < nXSize; i++ ) {
\*     pabyScanline[i*nPixelOffset] = pImage[i];
\*     pabyScanline[i*nPixelOffset+1] = pImage[i+1]; }
RECURSIVE WriteLoop2(_, _, _, _, _, _)
WriteLoop2(buf, img, base, nPixelOffset, i, nXSize) ==
    IF i >= nXSize THEN buf
    ELSE WriteLoop2(Put(Put(buf, base + i * nPixelOffset, Get(img, i)),
                        base + i * nPixelOffset + 1, Get(img, i + 1)),
                    img, base, nPixelOffset, i + 1, nXSize)

\* The transfer of IWriteBlock from the caller's block to the working buffer.
WriteTransfer(buf, img, base, nPixelSize, nPixelOffset, nXSize) ==
    IF nPixelSize = nPixelOffset
    THEN Memcpy(buf, base, img, 0, nPixelSize * nXSize)
    ELSE IF nPixelSize = 1
    THEN WriteLoop1(buf, img, base, nPixelOffset, 0, nXSize)
    ELSE WriteLoop2(buf, img, base, nPixelOffset, 0, nXSize)

\* The offsets into pabyBuffer that the transfer of IReadBlock reads and that
\* of IWriteBlock writes: pabyScanline[0 .. nPixelSize*nXSize - 1] by memcpy,
\* pabyScanline[i*nPixelOffset] and, for two-byte samples,
\* pabyScanline[i*nPixelOffset+1] in the loops.
BufferTouched(base, nPixelSize, nPixelOffset, nXSize) ==
    IF nPixelSize = nPixelOffset
    THEN {base + k : k \in 0..(nPixelSize * nXSize - 1)}
    ELSE IF nPixelSize = 1
    THEN {base + i * nPixelOffset : i \in 0..(nXSize - 1)}
    ELSE {base + i * nPixelOffset : i \in 0..(nXSize - 1)}
         \cup {base + i * nPixelOffset + 1 : i \in 0..(nXSize - 1)}

\* The offsets into the caller's block that the transfers touch:
\* pImage[0 .. nPixelSize*nXSize - 1] by memcpy, pImage[i] and, for two-byte
\* samples, pImage[i+1] in the loops.
BlockTouched(nPixelSize, nPixelOffset, nXSize) ==
    IF nPixelSize = nPixelOffset
    THEN 0..(nPixelSize * nXSize - 1)
    ELSE IF nPixelSize = 1
    THEN 0..(nXSize - 1)
    ELSE (0..(nXSize - 1)) \cup {i + 1 : i \in 0..(nXSize - 1)}

\* ------------------------------------------------------------- operations
\* What the environment does to one operation: the allocator fails (mallocOk
\* FALSE), or the failAt-th libpng call of the operation raises an error
\* (failAt 0: none does), or neither.
Faults ==
    {<<TRUE, 0>>, <<FALSE, 0>>} \cup {<<TRUE, k>> : k \in 1..(nRasterYSize + 1)}

\* What the use of a null pabyBuffer does: the process dies, or it survives.
Outcomes == {"SIGSEGV", "survives"}

\* The fault chosen for an operation took place in it.
FaultFelt(fault, d) ==
    fault = <<TRUE, 0>> \/ d.crashed \/ d.eErr # "CE_None"

\* A terminated process: the dataset is gone; what remains is the record of the
\* call that ended it.
Terminated(d) ==
    /\ crashed' = TRUE
    /\ eErr' = "terminated"
    /\ ev' = d.ev
    /\ pabyBuffer' = NULL
    /\ nBufferStartLine' = 0
    /\ nBufferLines' = 0
    /\ nLastLineRead' = -1
    /\ hPNG' = 0
    /\ produced' = <<>>
    /\ highReq' = -1
    /\ written' = NoWrites
    /\ pImage' = <<>>
    /\ UNCHANGED hdr

\* What a block operation leaves of the dataset after LoadScanline returned d.
Loaded(d) ==
    /\ crashed' = FALSE
    /\ eErr' = d.eErr
    /\ ev' = d.ev
    /\ nBufferStartLine' = d.nBufferStartLine
    /\ nBufferLines' = d.nBufferLines
    /\ nLastLineRead' = d.nLastLineRead
    /\ hPNG' = d.hPNG
    /\ produced' = d.produced
    /\ highReq' = d.highReq
    /\ UNCHANGED hdr

\* The blocks written into the buffer that are still in it: a load that
\* touched the buffer discards them.
Kept(d) ==
    IF d.ev = <<>> THEN written ELSE NoWrites

\* PNGRasterBand::IReadBlock( 0, nBlockYOff, pImage ) of band nBand, on a
\* caller's block filled with fill.
IReadBlock(nBlockYOff, nBand, fill, fault, ub) ==
    /\ ~crashed
    /\ LET nPixelSize == BandPixelSize(nBitDepth)
           nPixelOffset == BandPixelOffset(nBands, nBitDepth)
           nXSize == nRasterXSize
           img == Bytes(BlockBytes, fill)
       IN  \E d \in {LoadScanline(Dataset(fault[2]), nBlockYOff, fault[1])} :
           LET base == ScanlineOffset(nBlockYOff, d.nBufferStartLine, nPixelOffset,
                                      nXSize, nPixelSize, nBand)
               null == ~d.crashed /\ d.eErr = "CE_None" /\ d.pabyBuffer = NULL
           IN
           /\ FaultFelt(fault, d)
           /\ ub = "SIGSEGV" \/ null
           /\ call' = [op |-> "IReadBlock", nBlockYOff |-> nBlockYOff, nBand |-> nBand]
           /\ IF d.crashed \/ (null /\ ub = "SIGSEGV")
              THEN Terminated(d)
              ELSE /\ Loaded(d)
                   /\ pabyBuffer' = d.pabyBuffer
                   /\ written' = Kept(d)
                   /\ pImage' = IF d.eErr # "CE_None" THEN img
                                ELSE IF null THEN Malloc(BlockBytes)
                                ELSE ReadTransfer(img, d.pabyBuffer, base, nPixelSize,
                                                  nPixelOffset, nXSize)

\* PNGRasterBand::IWriteBlock( 0, nBlockYOff, pImage ) of band nBand, with the
\* caller's block holding CallerData(nBlockYOff, nBand).
IWriteBlock(nBlockYOff, nBand, fault, ub) ==
    /\ ~crashed
    /\ LET nPixelSize == BandPixelSize(nBitDepth)
           nPixelOffset == BandPixelOffset(nBands, nBitDepth)
           nXSize == nRasterXSize
           img == CallerData(nBlockYOff, nBand)
       IN  \E d \in {LoadScanline(Dataset(fault[2]), nBlockYOff, fault[1])} :
           LET base == ScanlineOffset(nBlockYOff, d.nBufferStartLine, nPixelOffset,
                                      nXSize, nPixelSize, nBand)
               null == ~d.crashed /\ d.eErr = "CE_None" /\ d.pabyBuffer = NULL
           IN
           /\ FaultFelt(fault, d)
           /\ ub = "SIGSEGV" \/ null
           /\ call' = [op |-> "IWriteBlock", nBlockYOff |-> nBlockYOff, nBand |-> nBand]
           /\ IF d.crashed \/ (null /\ ub = "SIGSEGV")
              THEN Terminated(d)
              ELSE /\ Loaded(d)
                   /\ pImage' = img
                   /\ IF d.eErr # "CE_None" \/ null
                      THEN /\ pabyBuffer' = d.pabyBuffer
                           /\ written' = Kept(d)
                      ELSE /\ pabyBuffer' = WriteTransfer(d.pabyBuffer, img, base,
                                                nPixelSize, nPixelOffset, nXSize)
                           /\ written' = [Kept(d) EXCEPT ![<<nBlockYOff, nBand>>] = img]

\* Faulty variant of FlushCache: the decode cursor is reset with the buffer.
FlushCacheResetsCursor ==
    /\ ~crashed
    /\ IF pabyBuffer # NULL
       THEN /\ pabyBuffer' = NULL
            /\ nBufferStartLine' = 0
            /\ nBufferLines' = 0
            /\ ev' = <<Event("CPLFree", 0, nLastLineRead)>>
       ELSE /\ UNCHANGED <<pabyBuffer, nBufferStartLine, nBufferLines>>
            /\ ev' = <<>>
    /\ nLastLineRead' = -1
    /\ written' = NoWrites
    /\ call' = [op |-> "FlushCache", nBlockYOff |-> -1, nBand |-> 0]
    /\ eErr' = "CE_None"
    /\ pImage' = <<>>
    /\ UNCHANGED <<hdr, hPNG, produced, highReq, crashed>>

\* PNGDataset::FlushCache().  GDALDataset::FlushCache() flushes the block
\* cache of the bands, which holds none of this state; the IWriteBlock calls
\* it makes for dirty blocks are IWriteBlock steps that precede this one.
FlushCache ==
    /\ ~crashed
    /\ IF pabyBuffer # NULL
       THEN /\ pabyBuffer' = NULL
            /\ nBufferStartLine' = 0
            /\ nBufferLines' = 0
            /\ ev' = <<Event("CPLFree", 0, nLastLineRead)>>
       ELSE /\ UNCHANGED <<pabyBuffer, nBufferStartLine, nBufferLines>>
            /\ ev' = <<>>
    /\ written' = NoWrites
    /\ call' = [op |-> "FlushCache", nBlockYOff |-> -1, nBand |-> 0]
    /\ eErr' = "CE_None"
    /\ pImage' = <<>>
    /\ UNCHANGED <<hdr, nLastLineRead, hPNG, produced, highReq, crashed>>

Next ==
    \/ /\ \E nBlockYOff \in Rows, nBand \in Bands, fill \in FillBytes,
             fault \in Faults, ub \in Outcomes :
             IReadBlock(nBlockYOff, nBand, fill, fault, ub)
       /\ UNCHANGED <<evictedRow, mysqlVars, enviVars>>
    \/ /\ \E nBlockYOff \in Rows, nBand \in Bands, fault \in Faults, ub \in Outcomes :
             IWriteBlock(nBlockYOff, nBand, fault, ub)
       /\ UNCHANGED <<evictedRow, mysqlVars, enviVars>>
    \/ /\ FlushCache
       /\ UNCHANGED <<evictedRow, mysqlVars, enviVars>>

Spec == Init /\ [][Next]_vars

\* ------------------------------------------- progressive images, with the
\* history of the written blocks that a load discarded
\* The row whose written blocks the operation on row nBlockYOff just made
\* discarded (-1: none): the buffer held written blocks of that row and the
\* operation loaded another row over them.
Evicted(nBlockYOff) ==
    LET rows == {r \in Rows : \E b \in Bands : written[<<r, b>>] # <<>>}
    IN  IF /\ ~crashed'
           /\ eErr' = "CE_None"
           /\ ev' # <<>>
           /\ rows # {}
           /\ nBlockYOff \notin rows
        THEN CHOOSE r \in rows : TRUE
        ELSE -1

EvictInit ==
    /\ Init
    /\ ~bInterlaced

EvictNext ==
    \/ \E nBlockYOff \in Rows, nBand \in Bands, fill \in FillBytes,
          fault \in Faults, ub \in Outcomes :
          /\ IReadBlock(nBlockYOff, nBand, fill, fault, ub)
          /\ evictedRow' = Evicted(nBlockYOff)
          /\ UNCHANGED <<mysqlVars, enviVars>>
    \/ \E nBlockYOff \in Rows, nBand \in Bands, fault \in Faults, ub \in Outcomes :
          /\ IWriteBlock(nBlockYOff, nBand, fault, ub)
          /\ evictedRow' = Evicted(nBlockYOff)
          /\ UNCHANGED <<mysqlVars, enviVars>>
    \/ /\ FlushCache
       /\ evictedRow' = -1
       /\ UNCHANGED <<mysqlVars, enviVars>>

EvictSpec == EvictInit /\ [][EvictNext]_vars

\* No PNG dataset is open: the variables of the PNG driver at rest.
PNGIdle ==
    /\ nRasterXSize = 1
    /\ nRasterYSize = 1
    /\ nBands = 1
    /\ nBitDepth = 8
    /\ bInterlaced = FALSE
    /\ pabyBuffer = NULL
    /\ nBufferStartLine = 0
    /\ nBufferLines = 0
    /\ nLastLineRead = -1
    /\ hPNG = 0
    /\ produced = <<>>
    /\ highReq = -1
    /\ written = NoWrites
    /\ call = [op |-> "none", nBlockYOff |-> -1, nBand |-> 0]
    /\ eErr = "CE_None"
    /\ ev = <<>>
    /\ pImage = <<>>
    /\ crashed = FALSE
    /\ evictedRow = -1

\* ------------------------- OGRMySQLResultLayer::ReadResultDefinition
\* Largest number of fields of a result set.
MaxFields == 3

\* Field names of a result set.
FieldNames == {"ogc_fid", "id"}
\* Field types: one that adds a field to the schema and the geometry type,
\* which does not.
FieldTypes == {"FIELD_TYPE_LONG", "FIELD_TYPE_GEOMETRY"}
\* MYSQL_FIELD: name, type and the NOT_NULL_FLAG and PRI_KEY_FLAG bits of flags.
MySQLFields ==
    [name : FieldNames, type : FieldTypes, notNull : BOOLEAN, priKey : BOOLEAN]

\* The result sets of at most MaxFields fields.
ResultSets ==
    UNION {[1..n -> MySQLFields] : n \in 0..MaxFields}

\* EQUAL(a, b), on names that are all in lower case.
EQUAL(a, b) == a = b

IS_NOT_NULL(f) == f.notNull
IS_PRI_KEY(f) == f.priKey

\* The constructor has stored the result set; ReadResultDefinition is about
\* to run its loop.  pszGeomColumn is NULL on construction, so that the
\* geometry_columns query at the head of ReadResultDefinition is skipped.
MySQLInit ==
    /\ PNGIdle
    /\ ENVIIdle
    /\ hResultSet \in ResultSets
    /\ iRawField = 0
    /\ poDefn = <<>>
    /\ bHasFid = FALSE
    /\ pszFIDColumn = NULL
    /\ pszGeomColumn = NULL

\* One pass of the loop over the fields of the result set: the switch on the
\* field type, then the choice of the FID column.
ReadResultField ==
    /\ iRawField < Len(hResultSet)
    /\ LET psMSField == hResultSet[iRawField + 1]
       IN  /\ poDefn' = IF psMSField.type = "FIELD_TYPE_GEOMETRY" THEN poDefn
                        ELSE Append(poDefn, psMSField.name)
           /\ pszGeomColumn' = IF psMSField.type = "FIELD_TYPE_GEOMETRY"
                               THEN psMSField.name ELSE pszGeomColumn
           /\ IF EQUAL(psMSField.name, "ogc_fid")
              THEN /\ bHasFid' = TRUE
                   /\ pszFIDColumn' = psMSField.name
              ELSE IF IS_NOT_NULL(psMSField) /\ IS_PRI_KEY(psMSField)
              THEN /\ bHasFid' = TRUE
                   /\ pszFIDColumn' = psMSField.name
              ELSE UNCHANGED <<bHasFid, pszFIDColumn>>
    /\ iRawField' = iRawField + 1
    /\ UNCHANGED <<hResultSet, pngVars, evictedRow, enviVars>>

MySQLNext == ReadResultField

MySQLSpec == MySQLInit /\ [][MySQLNext]_vars

\* --------------------------------------------------------- ENVIDataset
\* Largest band count of an ENVI dataset.
MaxENVIBands == 2
\* Largest "data type" code of a header written by another program.
MaxCode == 14
\* Largest number of "band names" blocks of a header.
MaxBlocks == 2

GDALDataTypes ==
    {"GDT_Unknown", "GDT_Byte", "GDT_UInt16", "GDT_Int16", "GDT_UInt32",
     "GDT_Int32", "GDT_Float32", "GDT_Float64", "GDT_CInt16", "GDT_CInt32",
     "GDT_CFloat32", "GDT_CFloat64"}

\* The switch of Create: the ENVI code of a data type, 0 for the default
\* branch.
ENVITypeOf(eType) ==
    CASE eType = "GDT_Byte" -> 1
      [] eType = "GDT_Int16" -> 2
      [] eType = "GDT_Int32" -> 3
      [] eType = "GDT_Float32" -> 4
      [] eType = "GDT_Float64" -> 5
      [] eType = "GDT_CFloat32" -> 6
      [] eType = "GDT_CFloat64" -> 9
      [] eType = "GDT_UInt16" -> 12
      [] eType = "GDT_UInt32" -> 13
      [] OTHER -> 0

\* A switch of Open that takes code 7 for the second complex type.
TypeOfENVICodeDense(n) ==
    CASE n = 1 -> "GDT_Byte"
      [] n = 2 -> "GDT_Int16"
      [] n = 3 -> "GDT_Int32"
      [] n = 4 -> "GDT_Float32"
      [] n = 5 -> "GDT_Float64"
      [] n = 6 -> "GDT_CFloat32"
      [] n = 7 -> "GDT_CFloat64"
      [] n = 12 -> "GDT_UInt16"
      [] n = 13 -> "GDT_UInt32"
      [] OTHER -> "none"

\* The switch of Open: the data type of an ENVI code, "none" for the default
\* branch.
TypeOfENVICode(n) ==
    CASE n = 1 -> "GDT_Byte"
      [] n = 2 -> "GDT_Int16"
      [] n = 3 -> "GDT_Int32"
      [] n = 4 -> "GDT_Float32"
      [] n = 5 -> "GDT_Float64"
      [] n = 6 -> "GDT_CFloat32"
      [] n = 9 -> "GDT_CFloat64"
      [] n = 12 -> "GDT_UInt16"
      [] n = 13 -> "GDT_UInt32"
      [] OTHER -> "none"

\* Text is a sequence of characters; a word without blank, comma or brace may
\* stand as one element.
DigitChars == <<"0", "1", "2", "3", "4", "5", "6", "7", "8", "9">>
IsDigit(c) == \E d \in 1..10 : DigitChars[d] = c
DigitValue(c) == (CHOOSE d \in 1..10 : DigitChars[d] = c) - 1

\* printf("%d") of a natural number.
RECURSIVE FormatInt(_)
FormatInt(n) ==
    IF n < 10 THEN <<DigitChars[n + 1]>>
    ELSE FormatInt(n \div 10) \o <<DigitChars[(n % 10) + 1]>>

\* atoi of an unsigned number: the value of the leading digits.
RECURSIVE atoiFrom(_, _, _)
atoiFrom(text, i, acc) ==
    IF i > Len(text) \/ ~IsDigit(text[i]) THEN acc
    ELSE atoiFrom(text, i + 1, acc * 10 + DigitValue(text[i]))
atoi(text) == atoiFrom(text, 1, 0)
\* atof, of numbers without sign, fraction or exponent.
atof(text) == atoiFrom(text, 1, 0)

\* A line of the header: the text before the first '=', whether there is one,
\* and the text after it.  A "{ ... }" value that ReadHeader joins from
\* several lines is one line here.
Line(name, value) == [name |-> name, eq |-> TRUE, value |-> value]
PlainLine(word) == [name |-> <<word>>, eq |-> FALSE, value |-> <<>>]

\* The header Create writes.
CreateHeader(nXSize, nYSize, nBandsIn, iENVIType) ==
    << PlainLine("ENVI"),
       Line(<<"samples">>, FormatInt(nXSize)),
       Line(<<"lines">>, FormatInt(nYSize)),
       Line(<<"bands">>, FormatInt(nBandsIn)),
       Line(<<"header", " ", "offset">>, <<"0">>),
       Line(<<"file", " ", "type">>, <<"ENVI", " ", "Standard">>),
       Line(<<"data", " ", "type">>, FormatInt(iENVIType)),
       Line(<<"interleave">>, <<"bsq">>),
       Line(<<"byte", " ", "order">>, FormatInt(0)) >>

\* ReadHeader: spaces in the name become underscores.
Underscore(name) ==
    [i \in DOMAIN name |-> IF name[i] = " " THEN "_" ELSE name[i]]

CSLHas(list, key) == \E i \in DOMAIN list : list[i].key = key
CSLFetchNameValue(list, key) ==
    list[CHOOSE i \in DOMAIN list : list[i].key = key].value
CSLSetNameValue(list, key, value) ==
    IF CSLHas(list, key)
    THEN [i \in DOMAIN list |->
             IF list[i].key = key THEN [key |-> key, value |-> value]
             ELSE list[i]]
    ELSE Append(list, [key |-> key, value |-> value])

RECURSIVE ReadLines(_, _, _)
ReadLines(file, i, papszHeader) ==
    IF i > Len(file) THEN papszHeader
    ELSE IF ~file[i].eq THEN ReadLines(file, i + 1, papszHeader)
    ELSE ReadLines(file, i + 1,
                   CSLSetNameValue(papszHeader, Underscore(file[i].name),
                                   file[i].value))

\* ReadHeader: FALSE unless the file starts with "ENVI"; the name/value pairs
\* of the lines after the first.
ReadHeader(file) ==
    IF Len(file) = 0 \/ file[1].name[1] # "ENVI"
    THEN [ok |-> FALSE, papszHeader |-> <<>>]
    ELSE [ok |-> TRUE, papszHeader |-> ReadLines(file, 2, <<>>)]

\* SplitList, on lists without blanks: the fields between '{', ',' and '}';
\* a last field that no ',' or '}' ends is dropped.
RECURSIVE SplitFrom(_, _)
SplitFrom(text, iChar) ==
    IF iChar > Len(text) \/ text[iChar] = "}" THEN <<>>
    ELSE LET ends == {j \in iChar..Len(text) : text[j] \in {",", "}"}}
         IN  IF ends = {} THEN <<>>
             ELSE LET iFEnd == CHOOSE j \in ends : \A k \in ends : j <= k
                  IN  <<SubSeq(text, iChar, iFEnd - 1)>>
                          \o SplitFrom(text, iFEnd + 1)
SplitList(text) ==
    IF Len(text) = 0 \/ text[1] # "{" THEN <<>> ELSE SplitFrom(text, 2)

\* A ProcessMapinfo that takes a list of any length.
ProcessMapinfoAnyCount(adf, text) ==
    LET papszFields == SplitList(text)
    IN  IF Len(papszFields) < 1
        THEN [ok |-> FALSE, adf |-> adf]
        ELSE [ok |-> TRUE, adf |-> adf]

\* ProcessMapinfo: FALSE for fewer than seven fields, else the geotransform
\* of fields 3 to 6.
ProcessMapinfo(adf, text) ==
    LET papszFields == SplitList(text)
    IN  IF Len(papszFields) < 7
        THEN [ok |-> FALSE, adf |-> adf]
        ELSE [ok |-> TRUE,
              adf |-> << atof(papszFields[4]), atof(papszFields[6]), 0,
                         atof(papszFields[5]), 0, 0 - atof(papszFields[7]) >>]

\* The value FlushCache prints after "band names = ": the descriptions
\* between braces, with a comma after each but the last.
RECURSIVE BandNamesFrom(_, _)
BandNamesFrom(desc, i) ==
    IF i > Len(desc) THEN <<"}">>
    ELSE desc[i] \o (IF i # Len(desc) THEN <<",">> ELSE <<>>)
             \o BandNamesFrom(desc, i + 1)
BandNamesBlock(ds) ==
    Line(<<"band", " ", "names">>, <<"{">> \o BandNamesFrom(ds.desc, 1))

\* A FlushCache whose output reaches the file whatever the stream's mode.
HeaderAfterFlushAnyMode(ds, file) ==
    Append(file, BandNamesBlock(ds))

\* The header file after ENVIDataset::FlushCache: the block is printed at the
\* end of the file; printing to a stream opened with "r" fails and leaves
\* the file as it is.
HeaderAfterFlush(ds, file) ==
    IF ds.pszMode = "r+" THEN Append(file, BandNamesBlock(ds)) ELSE file

\* The band descriptions of Open: empty, then the first MIN(count, nBands)
\* band names of the header.
BandDescriptions(papszHeader, nBandsIn) ==
    LET papszBandNames ==
            IF CSLHas(papszHeader, <<"band", "_", "names">>)
            THEN SplitList(CSLFetchNameValue(papszHeader,
                                             <<"band", "_", "names">>))
            ELSE <<>>
    IN  [i \in 1..nBandsIn |->
            IF i <= Len(papszBandNames) THEN papszBandNames[i] ELSE <<>>]

HeaderInt(papszHeader, key) ==
    IF CSLHas(papszHeader, key) THEN atoi(CSLFetchNameValue(papszHeader, key))
    ELSE 0

\* ENVIDataset::Open on the files of the dataset: what it returns, the
\* dataset object and the header file afterwards.
OpenResult(file, bin, eAccess) ==
    LET pszMode == IF eAccess = "GA_Update" THEN "r+" ELSE "r"
        fresh == [NoDataset EXCEPT !.pszMode = pszMode]
        rh == ReadHeader(file)
        h == rh.papszHeader
        nLines == HeaderInt(h, <<"lines">>)
        nSamples == HeaderInt(h, <<"samples">>)
        nBandsHdr == HeaderInt(h, <<"bands">>)
        eType == IF CSLHas(h, <<"data", "_", "type">>)
                 THEN TypeOfENVICode(
                          atoi(CSLFetchNameValue(h, <<"data", "_", "type">>)))
                 ELSE "GDT_Byte"
        mi == IF CSLHas(h, <<"map", "_", "info">>)
              THEN ProcessMapinfo(fresh.adfGeoTransform,
                                  CSLFetchNameValue(h, <<"map", "_", "info">>))
              ELSE [ok |-> FALSE, adf |-> fresh.adfGeoTransform]
        failed == [ret |-> "NULL", ds |-> NoDataset, file |-> file]
    IN  IF ~bin \/ file = NULL THEN failed
        ELSE IF ~rh.ok
        THEN [ret |-> "NULL", ds |-> NoDataset,
              file |-> HeaderAfterFlush(fresh, file)]
        ELSE IF \/ nLines = 0 \/ nSamples = 0 \/ nBandsHdr = 0
                \/ ~CSLHas(h, <<"interleave">>)
        THEN failed
        ELSE IF eType = "none" THEN failed
        ELSE IF CSLFetchNameValue(h, <<"interleave">>)
                    \notin {<<"bsq">>, <<"bil">>, <<"bip">>}
        THEN failed
        ELSE [ret |-> "poDS",
              ds |-> [open |-> TRUE, pszMode |-> pszMode,
                      nBands |-> nBandsHdr, eType |-> eType,
                      bFoundMapinfo |-> mi.ok, adfGeoTransform |-> mi.adf,
                      desc |-> BandDescriptions(h, nBandsHdr)],
              file |-> file]

\* The number of "band names" lines of a header file.
NumBlocks(file) ==
    Cardinality({i \in DOMAIN file : file[i].name = <<"band", " ", "names">>})

\* Headers that another program has written.
MapInfoValues ==
    { <<"{", "UTM", ",", "1", ",", "1", ",", "2", ",", "4", ",", "3", ",", "5",
        "}">>,
      <<"{", "UTM", ",", "1", "}">> }
BandNamesValue == <<"{", "b", "1", ",", "b", "2", "}">>
ForeignHeaders ==
    {<<PlainLine("JUNK")>>}
    \cup { SubSeq(CreateHeader(1, 1, nb, 0), 1, 6)
              \o (IF code < 0 THEN <<>>
                  ELSE <<Line(<<"data", " ", "type">>, FormatInt(code))>>)
              \o <<Line(<<"interleave">>, <<"bsq">>)>>
              \o mapinfo \o names :
           nb \in 1..MaxENVIBands, code \in -1..MaxCode,
           mapinfo \in {<<>>} \cup {<<Line(<<"map", " ", "info">>, v)>> :
                                       v \in MapInfoValues},
           names \in {<<>>, <<Line(<<"band", " ", "names">>, BandNamesValue)>>} }

GeoTransforms == {<<0, 1, 0, 0, 0, 1>>, <<7, 2, 1, 8, 1, -2>>}

ENVIInit ==
    /\ PNGIdle
    /\ MySQLIdle
    /\ ENVIIdle

\* Another program removes the files of the dataset while no dataset object
\* exists.
RemoveFiles ==
    /\ ~poDS.open
    /\ binFile
    /\ hdrFile' = NULL
    /\ binFile' = FALSE
    /\ enviRet' = ENVICall("RemoveFiles", "none", "none", <<>>)
    /\ UNCHANGED <<poDS, padfTransform>>

\* Another program writes an ENVI dataset where there is none.
WriteHeader(file) ==
    /\ ~poDS.open
    /\ ~binFile
    /\ hdrFile' = file
    /\ binFile' = TRUE
    /\ enviRet' = ENVICall("WriteHeader", "none", "none", <<>>)
    /\ UNCHANGED <<poDS, padfTransform>>

\* ENVIDataset::Create, with GDALOpen reaching ENVIDataset::Open.
ENVICreate(nBandsIn, eType) ==
    /\ ~poDS.open
    /\ LET iENVIType == ENVITypeOf(eType)
       IN  IF iENVIType = 0
           THEN /\ enviRet' = ENVICall("Create", "NULL", eType, <<>>)
                /\ UNCHANGED <<hdrFile, binFile, poDS>>
           ELSE \E r \in {OpenResult(CreateHeader(1, 1, nBandsIn, iENVIType),
                                     TRUE, "GA_Update")} :
                    /\ binFile' = TRUE
                    /\ hdrFile' = r.file
                    /\ poDS' = r.ds
                    /\ enviRet' = ENVICall("Create", r.ret, eType, <<>>)
    /\ UNCHANGED padfTransform

\* ENVIDataset::Open.
ENVIOpen(eAccess) ==
    /\ ~poDS.open
    /\ eAccess = "GA_Update" => NumBlocks(hdrFile) < MaxBlocks
    /\ \E r \in {OpenResult(hdrFile, binFile, eAccess)} :
           /\ hdrFile' = r.file
           /\ poDS' = r.ds
           /\ enviRet' = ENVICall("Open", r.ret, eAccess, <<>>)
    /\ UNCHANGED <<binFile, padfTransform>>

SetGeoTransform(xform) ==
    /\ poDS.open
    /\ poDS' = [poDS EXCEPT !.adfGeoTransform = xform]
    /\ enviRet' = ENVICall("SetGeoTransform", "CE_None", "none", xform)
    /\ UNCHANGED <<hdrFile, binFile, padfTransform>>

GetGeoTransform ==
    /\ poDS.open
    /\ padfTransform' = poDS.adfGeoTransform
    /\ enviRet' = ENVICall("GetGeoTransform",
                           IF poDS.bFoundMapinfo THEN "CE_None"
                           ELSE "CE_Failure", "none", <<>>)
    /\ UNCHANGED <<hdrFile, binFile, poDS>>

\* ENVIDataset::FlushCache.
ENVIFlushCache ==
    /\ poDS.open
    /\ poDS.pszMode = "r+" => NumBlocks(hdrFile) < MaxBlocks
    /\ hdrFile' = HeaderAfterFlush(poDS, hdrFile)
    /\ enviRet' = ENVICall("FlushCache", "none", "none", <<>>)
    /\ UNCHANGED <<binFile, poDS, padfTransform>>

\* ENVIDataset::~ENVIDataset: FlushCache, then the files are closed.
ENVIDestroy ==
    /\ poDS.open
    /\ poDS.pszMode = "r+" => NumBlocks(hdrFile) < MaxBlocks
    /\ hdrFile' = HeaderAfterFlush(poDS, hdrFile)
    /\ poDS' = NoDataset
    /\ enviRet' = ENVICall("~ENVIDataset", "none", "none", <<>>)
    /\ UNCHANGED <<binFile, padfTransform>>

ENVINext ==
    \/ /\ RemoveFiles
       /\ UNCHANGED <<pngVars, evictedRow, mysqlVars>>
    \/ /\ \E file \in ForeignHeaders : WriteHeader(file)
       /\ UNCHANGED <<pngVars, evictedRow, mysqlVars>>
    \/ /\ \E nBandsIn \in 1..MaxENVIBands, eType \in GDALDataTypes :
              ENVICreate(nBandsIn, eType)
       /\ UNCHANGED <<pngVars, evictedRow, mysqlVars>>
    \/ /\ \E eAccess \in {"GA_ReadOnly", "GA_Update"} : ENVIOpen(eAccess)
       /\ UNCHANGED <<pngVars, evictedRow, mysqlVars>>
    \/ /\ \E xform \in GeoTransforms : SetGeoTransform(xform)
       /\ UNCHANGED <<pngVars, evictedRow, mysqlVars>>
    \/ /\ GetGeoTransform
       /\ UNCHANGED <<pngVars, evictedRow, mysqlVars>>
    \/ /\ ENVIFlushCache
       /\ UNCHANGED <<pngVars, evictedRow, mysqlVars>>
    \/ /\ ENVIDestroy
       /\ UNCHANGED <<pngVars, evictedRow, mysqlVars>>

ENVISpec == ENVIInit /\ [][ENVINext]_vars

\* ------------------------------------------------------- reading the log
\* The last operation was a block operation, which calls LoadScanline.
BlockOps == {"IReadBlock", "IWriteBlock"}

\* How often call e occurs in a log.
NumEv(log, e) ==
    Cardinality({i \in DOMAIN log : log[i].e = e})

\* The rows png_read_rows produced in a log, in order.
DecodedRows(log) ==
    LET s == SelectSeq(log, LAMBDA x : x.e = "png_read_rows")
    IN  [i \in 1..Len(s) |-> s[i].n]

\* The rows first, first + 1, ..., last in order.
RowRange(first, last) ==
    [i \in 1..(last - first + 1) |-> first + i - 1]

\* The dataset as the constructor and Open leave it.
Opened ==
    [pabyBuffer |-> NULL, nBufferStartLine |-> 0, nBufferLines |-> 0,
     nLastLineRead |-> -1, hPNG |-> 0, produced |-> <<>>, highReq |-> -1,
     ev |-> <<>>, eErr |-> "CE_None", crashed |-> FALSE, nPng |-> 0, failAt |-> 0]

\* ----------------------------------------------------------------- claims

\* C1: a cache hit has no effect.  In every reachable state, for every row R
\* with nBufferStartLine <= R < nBufferStartLine + nBufferLines, LoadScanline(R)
\* returns CE_None, makes no Restart, no libpng call and no allocation (whatever
\* the allocator and libpng would have done), and leaves pabyBuffer,
\* nBufferStartLine, nBufferLines, nLastLineRead and the stream unchanged.
C1_CacheHitNoEffect ==
    ~crashed =>
        \A R \in Rows, fault \in Faults :
            (nBufferStartLine <= R /\ R < nBufferStartLine + nBufferLines) =>
                LET d == LoadScanline(Dataset(fault[2]), R, fault[1])
                IN  /\ d.eErr = "CE_None"
                    /\ ~d.crashed
                    /\ d.ev = <<>>
                    /\ d.nPng = 0
                    /\ d.pabyBuffer = pabyBuffer
                    /\ d.nBufferStartLine = nBufferStartLine
                    /\ d.nBufferLines = nBufferLines
                    /\ d.nLastLineRead = nLastLineRead
                    /\ d.hPNG = hPNG

\* C1 witness: a block operation was served from a buffer holding its row.
C1_Witness ==
    /\ call.op \in BlockOps
    /\ ~crashed
    /\ eErr = "CE_None"
    /\ ev = <<>>
    /\ pabyBuffer # NULL
    /\ nBufferStartLine <= call.nBlockYOff
    /\ call.nBlockYOff < nBufferStartLine + nBufferLines

\* C2: in progressive mode every png_read_rows call produces exactly row
\* nLastLineRead + 1, the stream stands one row past the cursor, and the rows
\* produced since open or the last Restart are 0, 1, 2, ... each exactly once.
C2_NoRowDecodedTwice ==
    ~bInterlaced =>
        /\ \A i \in DOMAIN ev :
              ev[i].e = "png_read_rows" => ev[i].n = ev[i].at + 1
        /\ produced = RowRange(0, Len(produced) - 1)
        /\ ~crashed => (hPNG = nLastLineRead + 1 /\ Len(produced) = hPNG)

\* C2 witness: one request rewound the stream and decoded rows 0 and 1 again.
C2_Witness ==
    /\ ~bInterlaced
    /\ ~crashed
    /\ call.op \in BlockOps
    /\ NumEv(ev, "Restart") = 1
    /\ Len(DecodedRows(ev)) >= 2
    /\ produced = RowRange(0, call.nBlockYOff)

\* C3 as stated: in progressive mode, when a request for row T follows a
\* previous highest requested row P < T with no restart in between, the number
\* of png_read_rows calls made to serve T is the number of rows strictly
\* between P and T, that is T - P - 1.
C3_Original ==
    [][(/\ call'.op \in BlockOps
        /\ ~bInterlaced
        /\ ~crashed'
        /\ highReq >= 0
        /\ highReq < call'.nBlockYOff
        /\ NumEv(ev', "Restart") = 0)
       => NumEv(ev', "png_read_rows") = call'.nBlockYOff - highReq - 1]_vars

\* C3 amended: under the same conditions the number of png_read_rows calls is
\* T - P, the number of rows after P up to and including T, and the rows
\* decoded are P + 1, ..., T in order.
C3_DecodesSincePrevious ==
    [][(/\ call'.op \in BlockOps
        /\ ~bInterlaced
        /\ ~crashed'
        /\ highReq >= 0
        /\ highReq < call'.nBlockYOff
        /\ NumEv(ev', "Restart") = 0)
       => /\ NumEv(ev', "png_read_rows") = call'.nBlockYOff - highReq
          /\ DecodedRows(ev') = RowRange(highReq + 1, call'.nBlockYOff)]_vars

\* C3 witness: a request skipped forward over at least one row without a
\* restart, from a row that had been requested before.
C3_Witness ==
    /\ ~bInterlaced
    /\ ~crashed
    /\ call.op \in BlockOps
    /\ NumEv(ev, "Restart") = 0
    /\ Len(DecodedRows(ev)) >= 2
    /\ DecodedRows(ev)[1] >= 1

\* C4: in progressive mode a request for a row T that is not in the buffer
\* makes exactly T - L png_read_rows calls, L being nLastLineRead after the
\* optional Restart: T - nLastLineRead calls without a restart and T + 1 with
\* one.  The rows L + 1 .. T are all decoded, none is skipped.
C4_DecodeCount ==
    [][(/\ call'.op \in BlockOps
        /\ ~bInterlaced
        /\ ~crashed'
        /\ ~(nBufferStartLine <= call'.nBlockYOff
             /\ call'.nBlockYOff < nBufferStartLine + nBufferLines))
       => LET T == call'.nBlockYOff
              L == IF NumEv(ev', "Restart") > 0 THEN -1 ELSE nLastLineRead
          IN  /\ NumEv(ev', "png_read_rows") = T - L
              /\ DecodedRows(ev') = RowRange(L + 1, T)]_vars

\* C4 witness: on a 4-row image rows 0, 1, 2, 3 were decoded once each with no
\* restart, the last request decoding row 3 alone.
C4_Witness ==
    /\ ~bInterlaced
    /\ ~crashed
    /\ nRasterYSize = 4
    /\ call.op \in BlockOps
    /\ call.nBlockYOff = 3
    /\ ev = <<Event("png_read_rows", 3, 2)>>
    /\ produced = <<0, 1, 2, 3>>

\* C5: in progressive mode a request for a row T that is not in the buffer
\* calls Restart if and only if T <= nLastLineRead, and then exactly once,
\* before decoding rows 0 .. T (T + 1 png_read_rows calls).
C5_RestartIffBehind ==
    [][(/\ call'.op \in BlockOps
        /\ ~bInterlaced
        /\ ~crashed'
        /\ ~(nBufferStartLine <= call'.nBlockYOff
             /\ call'.nBlockYOff < nBufferStartLine + nBufferLines))
       => LET T == call'.nBlockYOff
          IN  /\ NumEv(ev', "Restart") = (IF T <= nLastLineRead THEN 1 ELSE 0)
              /\ T <= nLastLineRead =>
                    /\ \E i \in DOMAIN ev' :
                          /\ ev'[i].e = "Restart"
                          /\ \A j \in DOMAIN ev' :
                                ev'[j].e = "png_read_rows" => j > i
                    /\ DecodedRows(ev') = RowRange(0, T)]_vars

\* C5 witness: after rows 0, 1, 2, 3 a request for row 1 made one restart and
\* two png_read_rows calls.
C5_Witness ==
    /\ ~bInterlaced
    /\ ~crashed
    /\ call.op \in BlockOps
    /\ call.nBlockYOff = 1
    /\ ev = <<Event("Restart", -1, 3), Event("png_read_rows", 0, -1),
              Event("png_read_rows", 1, 0)>>

\* C6: history independence of row data.  In progressive mode, after any
\* sequence of requests, restarts and flushes, a successful block operation on
\* row j that finds no written block in the buffer leaves the buffer holding
\* row j of the image, byte for byte what a first request for row j buffers.
C6_HistoryIndependence ==
    (/\ ~bInterlaced
     /\ call.op \in BlockOps
     /\ ~crashed
     /\ eErr = "CE_None"
     /\ written = NoWrites)
    => /\ pabyBuffer = PNGRow(call.nBlockYOff)
       /\ pabyBuffer = LoadScanline(Opened, call.nBlockYOff, TRUE).pabyBuffer

\* C6 witness: a row behind the cursor was read after a restart and the buffer
\* holds that row of the image.
C6_Witness ==
    /\ ~bInterlaced
    /\ ~crashed
    /\ call.op = "IReadBlock"
    /\ eErr = "CE_None"
    /\ NumEv(ev, "Restart") = 1
    /\ ev[1].at > call.nBlockYOff
    /\ pabyBuffer = PNGRow(call.nBlockYOff)

\* C7: interlaced single decode.  A successful request for a row that is not
\* in the buffer calls png_read_image exactly once (and png_read_rows never),
\* and while the decoded image is retained every request for any row is served
\* with no library call at all: no png_read_image, no Restart.
C7_InterlacedSingleDecode ==
    [][(bInterlaced /\ call'.op \in BlockOps /\ ~crashed')
       => /\ (/\ ~(nBufferStartLine <= call'.nBlockYOff
                   /\ call'.nBlockYOff < nBufferStartLine + nBufferLines)
              /\ eErr' = "CE_None")
             => /\ NumEv(ev', "png_read_image") = 1
                /\ NumEv(ev', "png_read_rows") = 0
          /\ pabyBuffer # NULL
             => /\ ev' = <<>>
                /\ eErr' = "CE_None"]_vars

\* C7 witness: a row other than the one whose request decoded the image was
\* served from the retained image.
C7_Witness ==
    /\ bInterlaced
    /\ ~crashed
    /\ call.op \in BlockOps
    /\ eErr = "CE_None"
    /\ ev = <<>>
    /\ pabyBuffer # NULL
    /\ nLastLineRead = nRasterYSize - 1
    /\ highReq > call.nBlockYOff

\* C8 as stated: in interlace mode every successful row request made once the
\* cursor has left the sentinel triggers a Restart followed by a second
\* png_read_image, even though the whole image is buffered.
C8_Original ==
    [][(/\ bInterlaced
        /\ call'.op \in BlockOps
        /\ ~crashed'
        /\ eErr' = "CE_None"
        /\ nLastLineRead # -1)
       => /\ NumEv(ev', "Restart") = 1
          /\ NumEv(ev', "png_read_image") = 1]_vars

\* C8 amended: in interlace mode a successful row request made once the cursor
\* has left the sentinel is served from the buffered image with no Restart and
\* no png_read_image while the image is buffered; only when the buffer has been
\* flushed does it make a Restart, an allocation and a second png_read_image.
C8_RedecodeOnlyAfterFlush ==
    [][(/\ bInterlaced
        /\ call'.op \in BlockOps
        /\ ~crashed'
        /\ eErr' = "CE_None"
        /\ nLastLineRead # -1)
       => IF pabyBuffer # NULL
          THEN ev' = <<>>
          ELSE /\ Len(ev') = 3
               /\ ev'[1].e = "Restart"
               /\ ev'[2].e = "VSIMalloc"
               /\ ev'[3].e = "png_read_image"]_vars

\* C8 witness: after a whole-image decode and a flush, a request made a
\* restart and decoded the whole image a second time.
C8_Witness ==
    /\ bInterlaced
    /\ ~crashed
    /\ call.op \in BlockOps
    /\ eErr = "CE_None"
    /\ Len(ev) = 3
    /\ ev[1] = Event("Restart", -1, nRasterYSize - 1)
    /\ ev[3].e = "png_read_image"
    /\ pabyBuffer # NULL

\* C9: interleave round trip.  After IWriteBlock has been called for every
\* band of a buffered row, a successful IReadBlock of that row returns for each
\* band exactly the block that was written for it.
C9_RoundTrip ==
    (/\ call.op = "IReadBlock"
     /\ ~crashed
     /\ eErr = "CE_None"
     /\ \A b \in Bands : written[<<call.nBlockYOff, b>>] # <<>>)
    => pImage = written[<<call.nBlockYOff, call.nBand>>]

\* C10: read gather.  After a successful IReadBlock of row r for band b, output
\* byte x*sample_size + k is buffer byte
\* (r - nBufferStartLine)*pixel_stride*width + x*pixel_stride
\* + (b-1)*sample_size + k, for every pixel x and every byte k of a sample.
C10_ReadGather ==
    (/\ call.op = "IReadBlock"
     /\ ~crashed
     /\ eErr = "CE_None"
     /\ pabyBuffer # NULL)
    => LET size == IF nBitDepth = 16 THEN 2 ELSE 1
           stride == nBands * size
           o == (call.nBlockYOff - nBufferStartLine) * stride * nRasterXSize
       IN  \A x \in 0..(nRasterXSize - 1), k \in 0..(size - 1) :
              Get(pImage, x * size + k)
                 = Get(pabyBuffer, o + x * stride + (call.nBand - 1) * size + k)

\* C11: write scatter.  After a successful IWriteBlock of row r for band b,
\* buffer byte (r - nBufferStartLine)*pixel_stride*width + x*pixel_stride
\* + (b-1)*sample_size + k is input byte x*sample_size + k, for every pixel x
\* and every byte k of a sample.
C11_WriteScatter ==
    (/\ call.op = "IWriteBlock"
     /\ ~crashed
     /\ eErr = "CE_None"
     /\ pabyBuffer # NULL)
    => LET size == IF nBitDepth = 16 THEN 2 ELSE 1
           stride == nBands * size
           o == (call.nBlockYOff - nBufferStartLine) * stride * nRasterXSize
       IN  \A x \in 0..(nRasterXSize - 1), k \in 0..(size - 1) :
              Get(pabyBuffer, o + x * stride + (call.nBand - 1) * size + k)
                 = Get(pImage, x * size + k)

\* C12: bulk copy equivalence.  With one band, for each sample size, the
\* memcpy path and the per-pixel loop of that sample size, run on the same
\* buffered row into the same block, produce the same bytes.
C12_BulkCopyEquivalence ==
    (nBands = 1 /\ ~crashed /\ pabyBuffer # NULL)
    => \A nLine \in Rows, fill \in FillBytes :
          (nBufferStartLine <= nLine /\ nLine < nBufferStartLine + nBufferLines)
          => LET nPixelSize == BandPixelSize(nBitDepth)
                 nPixelOffset == BandPixelOffset(nBands, nBitDepth)
                 base == ScanlineOffset(nLine, nBufferStartLine, nPixelOffset,
                                        nRasterXSize, nPixelSize, 1)
                 img == Bytes(BlockBytes, fill)
             IN  Memcpy(img, 0, pabyBuffer, base, nPixelSize * nRasterXSize)
                    = IF nPixelSize = 1
                      THEN ReadLoop1(img, pabyBuffer, base, nPixelOffset, 0,
                                     nRasterXSize)
                      ELSE ReadLoop2(img, pabyBuffer, base, nPixelOffset, 0,
                                     nRasterXSize)

\* C13: allocation failure is clean.  When the allocation of the whole-image
\* buffer fails, the request returns CE_Failure and pabyBuffer,
\* nBufferStartLine and nBufferLines are as they were before the request, so
\* that no row is servable without a buffer behind it.
C13_AllocationFailureClean ==
    [][(/\ bInterlaced
        /\ call'.op \in BlockOps
        /\ ~crashed'
        /\ NumEv(ev', "VSIMalloc") = 1
        /\ pabyBuffer' = NULL)
       => /\ eErr' = "CE_Failure"
          /\ UNCHANGED <<pabyBuffer, nBufferStartLine, nBufferLines>>
          /\ \A nLine \in Rows :
                ~(nBufferStartLine' <= nLine
                  /\ nLine < nBufferStartLine' + nBufferLines')]_vars

\* The libpng calls that decode rows, when they raise an error.
DecodeErrors == {"png_read_rows_error", "png_read_image_error"}

\* C14: a fatal decode error is reported.  When png_read_rows or
\* png_read_image raises an error inside a block operation, no further decode
\* call is made, the operation returns CE_Failure to its caller and the process
\* is not terminated.
C14_DecodeErrorReported ==
    (/\ call.op \in BlockOps
     /\ \E i \in DOMAIN ev : ev[i].e \in DecodeErrors)
    => /\ ev[Len(ev)].e \in DecodeErrors
       /\ ~crashed
       /\ eErr = "CE_Failure"

\* C15: the cache state machine.  The dataset starts Empty (no buffer,
\* nBufferLines 0, nLastLineRead -1); a successful block operation that finds
\* no buffer, as the first one does, leaves one row buffered (progressive) or
\* the whole image buffered (interlaced); and a buffer that exists is taken
\* away by FlushCache only.
C15_CacheStateMachine ==
    /\ (pabyBuffer = NULL /\ nBufferLines = 0 /\ nLastLineRead = -1)
    /\ [][/\ ((/\ pabyBuffer = NULL
                /\ call'.op \in BlockOps
                /\ ~crashed'
                /\ eErr' = "CE_None")
               => (/\ pabyBuffer' # NULL
                   /\ nBufferLines' = IF bInterlaced THEN nRasterYSize ELSE 1))
           /\ ((pabyBuffer # NULL /\ ~crashed' /\ pabyBuffer' = NULL)
               => call'.op = "FlushCache")]_vars

\* C16: flush empties the cache.  In every state that FlushCache leaves, there
\* is no buffer and nBufferLines is 0, so that no row is servable.
C16_FlushEmptiesCache ==
    call.op = "FlushCache"
    => /\ pabyBuffer = NULL
       /\ nBufferLines = 0
       /\ \A nLine \in Rows :
             ~(nBufferStartLine <= nLine /\ nLine < nBufferStartLine + nBufferLines)

C18_WholeImageOnUnreadStream ==
    \A i \in DOMAIN ev :
       ev[i].e \in {"png_read_image", "png_read_image_error"}
       => /\ bInterlaced
          /\ ev[i].at = -1
          /\ ev[i].e = "png_read_image_error" => ev[i].n = 0
          /\ i > 1
          /\ ev[i - 1].e = "VSIMalloc"
          /\ i > 2 => ev[i - 2] = Event("Restart", -1, nRasterYSize - 1)

\* C18 witness: on an image of two rows that had been decoded and flushed, a
\* request made a restart and then the whole-image decode at cursor -1.
C18_Witness ==
    /\ bInterlaced
    /\ nRasterYSize = 2
    /\ ~crashed
    /\ call.op \in BlockOps
    /\ Len(ev) = 3
    /\ ev[3] = Event("png_read_image", 2, -1)
    /\ ev[1] = Event("Restart", -1, 1)

\* C19: no decode past the last row.  Every png_read_rows call is made on a
\* progressive image with nLastLineRead < height - 1 and on a stream that has
\* produced fewer than height rows; none is made on an interlaced image.
C19_NoDecodePastLastRow ==
    \A i \in DOMAIN ev :
       ev[i].e \in {"png_read_rows", "png_read_rows_error"}
       => /\ ~bInterlaced
          /\ ev[i].at < nRasterYSize - 1
          /\ ev[i].n < nRasterYSize

\* C19 witness: a request for the last of three rows decoded it, with the
\* cursor at the row before it.
C19_Witness ==
    /\ ~bInterlaced
    /\ nRasterYSize = 3
    /\ ~crashed
    /\ call.op \in BlockOps
    /\ call.nBlockYOff = 2
    /\ nLastLineRead = 2
    /\ ev # <<>>
    /\ ev[Len(ev)] = Event("png_read_rows", 2, 1)

\* C20: Restart in any state.  In every reachable state, the first one
\* included, Restart leaves nLastLineRead at -1 and a stream whose next row is
\* row 0, and leaves pabyBuffer, nBufferStartLine and nBufferLines as they
\* were; and the decode call that follows a Restart inside a request is made at
\* cursor -1 and yields row 0.
C20_RestartAnyState ==
    /\ ~crashed
       => LET d == Restart(Dataset(0))
          IN  /\ ~d.crashed
              /\ d.nLastLineRead = -1
              /\ d.hPNG = 0
              /\ d.produced = <<>>
              /\ d.pabyBuffer = pabyBuffer
              /\ d.nBufferStartLine = nBufferStartLine
              /\ d.nBufferLines = nBufferLines
              /\ pabyBuffer # NULL
                 => /\ png_read_rows(d).produced = <<0>>
                    /\ png_read_image(d).produced = RowRange(0, nRasterYSize - 1)
    /\ \A i \in DOMAIN ev :
          (ev[i].e = "Restart" /\ i < Len(ev))
          => \/ ev[i + 1] = Event("png_read_rows", 0, -1)
             \/ ev[i + 1] = Event("png_read_rows_error", 0, -1)
             \/ ev[i + 1].e = "VSIMalloc" /\ ev[i + 1].at = -1

\* C20 witness: with row 1 buffered, a request for row 0 made a restart, after
\* which the stream yielded row 0 into the same buffer.
C20_Witness ==
    /\ ~bInterlaced
    /\ ~crashed
    /\ call.op \in BlockOps
    /\ call.nBlockYOff = 0
    /\ ev = <<Event("Restart", -1, 1), Event("png_read_rows", 0, -1)>>
    /\ nLastLineRead = 0
    /\ nBufferStartLine = 0
    /\ nBufferLines = 1

\* C21: interlaced post-state.  After a successful request for a row that was
\* not servable on an interlaced image, nBufferStartLine = 0, nBufferLines =
\* height, nLastLineRead = height - 1, every row of the image is servable, and
\* the buffer (before any block is written into it) holds rows 0 .. height - 1
\* of the image one after the other.
C21_InterlacedPostState ==
    [][(/\ bInterlaced
        /\ call'.op \in BlockOps
        /\ ~crashed'
        /\ eErr' = "CE_None"
        /\ ~(nBufferStartLine <= call'.nBlockYOff
             /\ call'.nBlockYOff < nBufferStartLine + nBufferLines))
       => /\ nBufferStartLine' = 0
          /\ nBufferLines' = nRasterYSize
          /\ nLastLineRead' = nRasterYSize - 1
          /\ \A nLine \in Rows :
                nBufferStartLine' <= nLine /\ nLine < nBufferStartLine' + nBufferLines'
          /\ written' = NoWrites
             => /\ Len(pabyBuffer') = nRasterYSize * RowBytes
                /\ \A nLine \in Rows : \A k \in 1..RowBytes :
                      pabyBuffer'[nLine * RowBytes + k] = PNGRow(nLine)[k]]_vars

\* C21 witness: a read of row 1 of an interlaced image of three rows, none of
\* them servable before, left the three rows buffered.
C21_Witness ==
    /\ bInterlaced
    /\ nRasterYSize = 3
    /\ ~crashed
    /\ call = [op |-> "IReadBlock", nBlockYOff |-> 1, nBand |-> 1]
    /\ eErr = "CE_None"
    /\ NumEv(ev, "png_read_image") = 1
    /\ pabyBuffer = PNGRow(0) \o PNGRow(1) \o PNGRow(2)
    /\ nBufferLines = 3

\* C22: progressive post-state.  After a successful request for a row T that
\* was not servable on a progressive image, nBufferStartLine = T, nBufferLines
\* = 1 and nLastLineRead = T, so that row T and no other row is servable.
C22_ProgressivePostState ==
    [][(/\ ~bInterlaced
        /\ call'.op \in BlockOps
        /\ ~crashed'
        /\ eErr' = "CE_None"
        /\ ~(nBufferStartLine <= call'.nBlockYOff
             /\ call'.nBlockYOff < nBufferStartLine + nBufferLines))
       => LET T == call'.nBlockYOff
          IN  /\ nBufferStartLine' = T
              /\ nBufferLines' = 1
              /\ nLastLineRead' = T
              /\ \A nLine \in Rows :
                    (nBufferStartLine' <= nLine
                     /\ nLine < nBufferStartLine' + nBufferLines') <=> nLine = T]_vars

\* C22 witness: with row 0 buffered, a request for row 2 of a progressive image
\* decoded rows 1 and 2 and left row 2 buffered.
C22_Witness ==
    /\ ~bInterlaced
    /\ ~crashed
    /\ call.op \in BlockOps
    /\ call.nBlockYOff = 2
    /\ ev = <<Event("png_read_rows", 1, 0), Event("png_read_rows", 2, 1)>>
    /\ nBufferStartLine = 2
    /\ nBufferLines = 1
    /\ nLastLineRead = 2

\* C23: the block operations load first and pass a failure on.  IReadBlock and
\* IWriteBlock call LoadScanline for their row before they touch the buffer,
\* so that an operation on a row that was not servable has allocated or decoded
\* by the time it returns; and when LoadScanline returns a failure the
\* operation returns it, the caller's block is as it was passed in and the
\* buffer is as LoadScanline left it, with no block written into it.
C23_LoadFirstFailureReturned ==
    [][(call'.op \in BlockOps /\ ~crashed')
       => /\ ~(nBufferStartLine <= call'.nBlockYOff
               /\ call'.nBlockYOff < nBufferStartLine + nBufferLines)
             => /\ ev' # <<>>
                /\ highReq' >= call'.nBlockYOff
          /\ eErr' # "CE_None"
             => /\ eErr' = "CE_Failure"
                /\ ev' # <<>>
                /\ written' = NoWrites
                /\ pabyBuffer' = NULL
                /\ call'.op = "IReadBlock"
                   => \E fill \in FillBytes : pImage' = Bytes(BlockBytes, fill)
                /\ call'.op = "IWriteBlock"
                   => pImage' = CallerData(call'.nBlockYOff, call'.nBand)]_vars

\* C23 witness: an IWriteBlock whose LoadScanline could not allocate the
\* whole-image buffer returned the failure and wrote no block.
C23_Witness ==
    /\ bInterlaced
    /\ ~crashed
    /\ call.op = "IWriteBlock"
    /\ eErr = "CE_Failure"
    /\ NumEv(ev, "VSIMalloc") = 1
    /\ written = NoWrites
    /\ pImage = CallerData(call.nBlockYOff, call.nBand)

\* C24: minimal retention.  In every reachable state nBufferLines is 0 or 1 on
\* a progressive image and 0 or height on an interlaced image, and
\* 0 <= nBufferStartLine and nBufferStartLine + nBufferLines <= height.
C24_MinimalRetention ==
    /\ ~bInterlaced => nBufferLines \in {0, 1}
    /\ bInterlaced => nBufferLines \in {0, nRasterYSize}
    /\ 0 <= nBufferStartLine
    /\ nBufferStartLine + nBufferLines <= nRasterYSize

\* C24 witness: the last of four rows of a progressive image is the one row
\* buffered.
C24_Witness ==
    /\ ~bInterlaced
    /\ nRasterYSize = 4
    /\ ~crashed
    /\ pabyBuffer # NULL
    /\ nBufferStartLine = 3
    /\ nBufferLines = 1

\* The allocations of the single-row buffer in a log.
NumAlloc(log) ==
    NumEv(log, "CPLMalloc") + NumEv(log, "CPLMalloc_fatal")

\* C25: the single-row buffer is allocated once.  On a progressive image a
\* request allocates, and then once, exactly when it finds no buffer, and it
\* finds none only as the first request after Open or after a FlushCache: over
\* requests and restarts with no flush between them there is at most one
\* allocation.
C25_SingleAllocation ==
    [][(~bInterlaced /\ call'.op \in BlockOps)
       => /\ NumAlloc(ev') = IF pabyBuffer = NULL THEN 1 ELSE 0
          /\ NumAlloc(ev') > 0 => call.op \in {"Open", "FlushCache"}
          /\ NumEv(ev', "VSIMalloc") = 0]_vars

\* C25 witness: a request that restarted and decoded two rows used the buffer
\* that was there and allocated none.
C25_Witness ==
    /\ ~bInterlaced
    /\ ~crashed
    /\ call.op \in BlockOps
    /\ Len(ev) = 3
    /\ ev[1].e = "Restart"
    /\ NumEv(ev, "png_read_rows") = 2
    /\ NumAlloc(ev) = 0
    /\ pabyBuffer # NULL

\* C26: interlaced restart.  On an interlaced image a request for a row that
\* is not servable calls Restart if and only if nLastLineRead is not -1, and
\* then once, before the allocation and png_read_image: the first request
\* after Open makes no restart, the first request after a FlushCache that
\* follows a whole-image decode makes exactly one.
C26_InterlacedRestart ==
    [][(/\ bInterlaced
        /\ call'.op \in BlockOps
        /\ ~crashed'
        /\ ~(nBufferStartLine <= call'.nBlockYOff
             /\ call'.nBlockYOff < nBufferStartLine + nBufferLines))
       => /\ NumEv(ev', "Restart") = IF nLastLineRead # -1 THEN 1 ELSE 0
          /\ NumEv(ev', "Restart") = 1
             => /\ ev'[1] = Event("Restart", -1, nLastLineRead)
                /\ call.op = "FlushCache"
                /\ nLastLineRead = nRasterYSize - 1
          /\ call.op = "Open" => NumEv(ev', "Restart") = 0
          /\ \A i \in DOMAIN ev' : ev'[i].e = "png_read_image" => i = Len(ev')]_vars

\* C26 witness: the first request after a FlushCache that followed a
\* whole-image decode of four rows made one restart and decoded the image again.
C26_Witness ==
    /\ bInterlaced
    /\ nRasterYSize = 4
    /\ ~crashed
    /\ call.op \in BlockOps
    /\ eErr = "CE_None"
    /\ NumEv(ev, "Restart") = 1
    /\ NumEv(ev, "png_read_image") = 1
    /\ nLastLineRead = 3

\* C27: servable rows are backed by memory.  In every reachable state
\* nBufferLines > 0 implies that pabyBuffer is allocated with at least
\* nBufferLines * width * pixel_stride bytes; a null pabyBuffer implies
\* nBufferLines = 0.
C27_ServableRowsBacked ==
    /\ nBufferLines > 0
       => /\ pabyBuffer # NULL
          /\ Len(pabyBuffer) >= nBufferLines * nRasterXSize
                                   * LoadPixelOffset(nBands, nBitDepth)
    /\ pabyBuffer = NULL => nBufferLines = 0

\* C28: the assertion of the interlaced branch holds.  On an interlaced
\* image, whatever the requests, flushes and allocation failures, no request
\* enters the interlaced branch with a buffer allocated: CPLAssert( pabyBuffer
\* == NULL ) never fails, and each request allocates at most one buffer, when
\* none exists.
C28_AssertBufferNull ==
    [][(bInterlaced /\ call'.op \in BlockOps)
       => /\ NumEv(ev', "CPLAssert") = 0
          /\ NumEv(ev', "VSIMalloc") <= 1
          /\ NumEv(ev', "VSIMalloc") = 1 => pabyBuffer = NULL
          /\ ~(nBufferStartLine <= call'.nBlockYOff
               /\ call'.nBlockYOff < nBufferStartLine + nBufferLines)
             => pabyBuffer = NULL]_vars

\* C28 witness: a request that followed a whole-image decode and a flush
\* entered the interlaced branch, restarted, allocated a new buffer and decoded
\* the two rows of the image into it.
C28_Witness ==
    /\ bInterlaced
    /\ nRasterYSize = 2
    /\ ~crashed
    /\ call.op \in BlockOps
    /\ eErr = "CE_None"
    /\ Len(ev) = 3
    /\ ev[1].e = "Restart"
    /\ ev[2].e = "VSIMalloc"
    /\ ev[2].at = -1
    /\ Len(pabyBuffer) = 2 * RowBytes

\* C29: decode cursor bounds.  In every reachable state
\* -1 <= nLastLineRead <= height - 1.
C29_CursorBounds ==
    /\ -1 <= nLastLineRead
    /\ nLastLineRead <= nRasterYSize - 1

\* C29 witness: the cursor is on the last of four rows of a progressive image.
C29_Witness ==
    /\ ~bInterlaced
    /\ nRasterYSize = 4
    /\ ~crashed
    /\ call.op \in BlockOps
    /\ nLastLineRead = 3
    /\ hPNG = 4

\* C30: the buffered row is the last decoded row.  On a progressive image, in
\* every state between operations, nBufferLines = 1 implies nBufferStartLine =
\* nLastLineRead.
C30_BufferedRowIsLastDecoded ==
    (~bInterlaced /\ nBufferLines = 1) => nBufferStartLine = nLastLineRead

\* C30 witness: after a request for row 1 that followed one for row 2, row 1 is
\* buffered and is the row the restarted stream decoded last.
C30_Witness ==
    /\ ~bInterlaced
    /\ ~crashed
    /\ call.op \in BlockOps
    /\ Len(ev) = 3
    /\ ev[1] = Event("Restart", -1, 2)
    /\ nBufferLines = 1
    /\ nBufferStartLine = 1
    /\ nLastLineRead = 1

C32_TransferFrame ==
    [][(call'.op \in BlockOps /\ ~crashed' /\ eErr' = "CE_None")
       => LET ref == LoadScanline(Dataset(0), call'.nBlockYOff, TRUE).pabyBuffer
              size == IF nBitDepth = 16 THEN 2 ELSE 1
              stride == nBands * size
              o == (call'.nBlockYOff - nBufferStartLine') * stride * nRasterXSize
              own == {o + x * stride + (call'.nBand - 1) * size + k :
                         x \in 0..(nRasterXSize - 1), k \in 0..(size - 1)}
          IN  ref # NULL
              => /\ Len(pabyBuffer') = Len(ref)
                 /\ call'.op = "IReadBlock" => pabyBuffer' = ref
                 /\ \A off \in 0..(Len(ref) - 1) :
                       off \notin own => pabyBuffer'[off + 1] = ref[off + 1]]_vars

\* C32 witness: an IWriteBlock for band 2 of a two-band row changed a byte of
\* band 2 and left the bytes of band 1 as decoded.
C32_Witness ==
    /\ ~bInterlaced
    /\ nBands = 2
    /\ nBitDepth = 8
    /\ nRasterXSize = 2
    /\ ~crashed
    /\ call.op = "IWriteBlock"
    /\ call.nBand = 2
    /\ eErr = "CE_None"
    /\ pabyBuffer # NULL
    /\ pabyBuffer # PNGRow(call.nBlockYOff)
    /\ pabyBuffer[1] = PNGRow(call.nBlockYOff)[1]
    /\ pabyBuffer[3] = PNGRow(call.nBlockYOff)[3]

\* C33: bounds safety of the block transfer.  After a successful
\* LoadScanline, for every band, row, sample size and width, every offset into
\* the buffer that IReadBlock or IWriteBlock touches lies in
\* [0, nBufferLines * width * pixel_stride), inside the allocation if there is
\* one, and
\* every offset into the caller's block lies in [0, width * sample_size).
C33_TransferBounds ==
    (/\ call.op \in BlockOps
     /\ ~crashed
     /\ eErr = "CE_None")
    => LET nPixelSize == BandPixelSize(nBitDepth)
           nPixelOffset == BandPixelOffset(nBands, nBitDepth)
           base == ScanlineOffset(call.nBlockYOff, nBufferStartLine, nPixelOffset,
                                  nRasterXSize, nPixelSize, call.nBand)
       IN  /\ \A off \in BufferTouched(base, nPixelSize, nPixelOffset, nRasterXSize) :
                /\ 0 <= off
                /\ off < nBufferLines * nRasterXSize * nPixelOffset
                /\ pabyBuffer # NULL => off < Len(pabyBuffer)
           /\ \A off \in BlockTouched(nPixelSize, nPixelOffset, nRasterXSize) :
                /\ 0 <= off
                /\ off < nRasterXSize * nPixelSize
                /\ off < Len(pImage)

\* C33 witness: the last band of the last row of a whole-image buffer of
\* two-byte samples was transferred.
C33_Witness ==
    /\ bInterlaced
    /\ nBitDepth = 16
    /\ nBands = 2
    /\ nRasterYSize = 2
    /\ ~crashed
    /\ call.op \in BlockOps
    /\ call.nBlockYOff = 1
    /\ call.nBand = 2
    /\ eErr = "CE_None"
    /\ pabyBuffer # NULL

\* C34: written data does not survive eviction.  On a progressive image, after
\* an IWriteBlock of row r, a successful request for another row and then an
\* IReadBlock of row r, the buffer holds the decoded row r of the image and the
\* block returned is band b of that decoded row, not what was written.
C34_NoWrittenDataAfterEviction ==
    [][(/\ evictedRow # -1
        /\ call'.op = "IReadBlock"
        /\ call'.nBlockYOff = evictedRow
        /\ ~crashed'
        /\ eErr' = "CE_None")
       => LET size == IF nBitDepth = 16 THEN 2 ELSE 1
              stride == nBands * size
          IN  /\ pabyBuffer' = PNGRow(evictedRow)
              /\ \A x \in 0..(nRasterXSize - 1), k \in 0..(size - 1) :
                    Get(pImage', x * size + k)
                       = Get(PNGRow(evictedRow),
                             x * stride + (call'.nBand - 1) * size + k)]_vars

\* C35: the FID column of a result layer.  When ReadResultDefinition has gone
\* through the fields of the result set, the FID column is "ogc_fid" if the
\* result set has a field of that name, in whatever position; if it has none,
\* the FID column is a field that is NOT NULL and a primary key, if there is
\* one, and there is no FID column otherwise.
C35_FidColumn ==
    iRawField = Len(hResultSet)
    => LET named == {i \in DOMAIN hResultSet : hResultSet[i].name = "ogc_fid"}
           keys == {i \in DOMAIN hResultSet :
                       hResultSet[i].notNull /\ hResultSet[i].priKey}
       IN  IF named # {}
           THEN bHasFid /\ pszFIDColumn = "ogc_fid"
           ELSE IF keys # {}
           THEN bHasFid /\ pszFIDColumn \in {hResultSet[i].name : i \in keys}
           ELSE ~bHasFid /\ pszFIDColumn = NULL

\* The data types ENVIDataset::Create accepts and their ENVI codes.
ENVITypes ==
    {"GDT_Byte", "GDT_Int16", "GDT_Int32", "GDT_Float32", "GDT_Float64",
     "GDT_CFloat32", "GDT_CFloat64", "GDT_UInt16", "GDT_UInt32"}
ENVICodes == {1, 2, 3, 4, 5, 6, 9, 12, 13}

\* The "data type" code of a header file, -1 when it has none.
HeaderCode(file) ==
    LET h == ReadHeader(file).papszHeader
    IN  IF CSLHas(h, <<"data", "_", "type">>)
        THEN atoi(CSLFetchNameValue(h, <<"data", "_", "type">>))
        ELSE -1

MapinfoProcessed(file) ==
    LET h == ReadHeader(file).papszHeader
    IN  /\ CSLHas(h, <<"map", "_", "info">>)
        /\ Len(SplitList(CSLFetchNameValue(h, <<"map", "_", "info">>))) >= 7

\* C37: GetGeoTransform copies the six stored coefficients to the caller and
\* returns CE_None exactly when the header had a map_info entry that was
\* processed at open; right after SetGeoTransform it returns the values just
\* set.  SetGeoTransform stores its six values, returns CE_None and leaves
\* the map-info status as it was.
C37_GeoTransformStatus ==
    [][ /\ (enviRet'.op = "GetGeoTransform" =>
               /\ Len(padfTransform') = 6
               /\ padfTransform' = poDS.adfGeoTransform
               /\ (enviRet'.ret = "CE_None") = MapinfoProcessed(hdrFile)
               /\ (enviRet'.ret = "CE_Failure") = ~MapinfoProcessed(hdrFile)
               /\ (enviRet.op = "SetGeoTransform"
                       => padfTransform' = enviRet.xform))
        /\ (enviRet'.op = "SetGeoTransform" =>
               /\ enviRet'.ret = "CE_None"
               /\ poDS'.adfGeoTransform = enviRet'.xform
               /\ poDS'.bFoundMapinfo = poDS.bFoundMapinfo)
      ]_vars

\* C37 witness: on a dataset without map info, GetGeoTransform after
\* SetGeoTransform has handed back the values set and reported failure.
C37_Witness ==
    /\ enviRet.op = "GetGeoTransform"
    /\ enviRet.ret = "CE_Failure"
    /\ ~MapinfoProcessed(hdrFile)
    /\ padfTransform = <<7, 2, 1, 8, 1, -2>>
    /\ poDS.adfGeoTransform = padfTransform

====
